---- MODULE Spec2Model ----
(***************************************************************************)
(* Model of the two agent tools of this repository:                        *)
(*   audio_transcribe  (src/src/tools/audio_transcribe.rs)                 *)
(*   youtube_download  (src/youtube_download.rs)                           *)
(* One invocation of execute is a sequence of steps, one per awaited       *)
(* external operation (subprocess or HTTP request); the outcome of every   *)
(* external operation is chosen by the environment.                        *)
(* Text is modelled as a sequence of tokens (words, " " and "\n").         *)
(***************************************************************************)
EXTENDS Integers, Sequences, FiniteSets, TLC

\* ---------------------------------------------------------------- bounds
NumCalls == 2
MaxClock == 1
MaxStdoutLines == 1

Calls == 1 .. NumCalls
Secs == 0 .. MaxClock

\* ------------------------------------------------------- Option and text
None == <<>>
Some(x) == <<x>>
IsSome(o) == o # <<>>
UnwrapOr(o, d) == IF o = <<>> THEN d ELSE o[1]

RECURSIVE TrimStart(_)
TrimStart(s) ==
  IF s # <<>> /\ Head(s) \in {" ", "\n"} THEN TrimStart(Tail(s)) ELSE s

RECURSIVE TrimEnd(_)
TrimEnd(s) ==
  IF s # <<>> /\ s[Len(s)] \in {" ", "\n"}
  THEN TrimEnd(SubSeq(s, 1, Len(s) - 1)) ELSE s

Trim(s) == TrimEnd(TrimStart(s))

StartsWith(s, p) == Len(s) >= Len(p) /\ SubSeq(s, 1, Len(p)) = p

StripPrefix(s, p) ==
  IF StartsWith(s, p) THEN Some(SubSeq(s, Len(p) + 1, Len(s))) ELSE None

\* str::contains at the granularity of tokens
Mentions(msg, w) == \E i \in DOMAIN msg : msg[i] = w

NewlineAt(s) ==
  IF \E i \in DOMAIN s : s[i] = "\n"
  THEN CHOOSE i \in DOMAIN s : s[i] = "\n" /\ \A j \in 1 .. (i - 1) : s[j] # "\n"
  ELSE 0

\* str::lines
RECURSIVE Lines(_)
Lines(s) ==
  IF s = <<>> THEN <<>>
  ELSE LET i == NewlineAt(s)
       IN IF i = 0 THEN <<s>>
          ELSE <<SubSeq(s, 1, i - 1)>> \o Lines(SubSeq(s, i + 1, Len(s)))

\* ------------------------------------------------------------ JSON values
JAbsent == [t |-> "absent", v |-> <<>>]
JNull == [t |-> "null", v |-> <<>>]
JStr(s) == [t |-> "str", v |-> s]
JBool(b) == [t |-> "bool", v |-> IF b THEN <<"true">> ELSE <<"false">>]
JNum == [t |-> "num", v |-> <<"1">>]
\* an array of strings, one token per element
JArr(elems) == [t |-> "arr", v |-> elems]

ArgKeys ==
  {"input", "output_dir", "model", "language", "format", "word_timestamps",
   "url", "list_formats", "mode", "subtitles", "subtitle_langs", "thumbnails",
   "playlist", "debug", "cookies_browser"}

\* args["key"] : an absent key reads as Null
Index(doc, k) == IF doc[k].t = "absent" THEN JNull ELSE doc[k]
AsStr(j) == IF j.t = "str" THEN Some(j.v) ELSE None
AsBool(j) == IF j.t = "bool" THEN Some(j.v = <<"true">>) ELSE None

UrlInput == <<"http", "s://www.youtube.com/watch?v=jNQXAC9IVRw">>
LocalInput == <<"/data/voice_note.mp3">>

Doc(input, output_dir, url, list_formats) ==
  [k \in ArgKeys |->
     CASE k = "input" -> input
       [] k = "output_dir" -> output_dir
       [] k = "url" -> url
       [] k = "list_formats" -> list_formats
       [] OTHER -> JAbsent]

AudioDocs ==
  { Doc(i, o, JAbsent, JAbsent) :
      i \in {JAbsent, JNum, JStr(UrlInput), JStr(LocalInput)},
      o \in {JAbsent, JStr(<<"/tmp/zeroclaw_transcribe_test">>)} }

YoutubeDocs ==
  { Doc(JAbsent, JAbsent, u, l) :
      u \in {JAbsent, JNum, JStr(UrlInput)},
      l \in {JAbsent, JBool(TRUE)} }

ArgDocs(t) == IF t = "audio_transcribe" THEN AudioDocs ELSE YoutubeDocs

\* str::to_lowercase and eq_ignore_ascii_case, on the tokens used here
LowerToken(t) ==
  CASE t = "ALL" -> "all"
    [] t = "Audio" -> "audio"
    [] t = "VIDEO" -> "video"
    [] OTHER -> t
ToLower(s) == [i \in DOMAIN s |-> LowerToken(s[i])]

\* Vec<&str>::join(",")
RECURSIVE Join(_)
Join(elems) ==
  IF elems = <<>> THEN <<>>
  ELSE IF Len(elems) = 1 THEN elems
  ELSE <<Head(elems), ",">> \o Join(Tail(elems))

NoOptions ==
  [model |-> <<>>, language |-> <<>>, format |-> <<>>,
   word_timestamps |-> FALSE, mode |-> <<>>, subtitles |-> FALSE,
   thumbnails |-> FALSE, cookies_browser |-> <<>>, list_formats |-> FALSE,
   playlist |-> FALSE, debug |-> FALSE]

\* audio_transcribe with "auto" as the language of a call that gives none
\* replaced by "en"
AudioOptionsLanguageEn(doc) ==
  [NoOptions EXCEPT
     !.model = UnwrapOr(AsStr(Index(doc, "model")), <<"auto">>),
     !.language = UnwrapOr(AsStr(Index(doc, "language")), <<"en">>),
     !.format = UnwrapOr(AsStr(Index(doc, "format")), <<"text">>),
     !.word_timestamps = UnwrapOr(AsBool(Index(doc, "word_timestamps")), FALSE)]

\* the optional fields read by audio_transcribe
AudioOptions(doc) ==
  [NoOptions EXCEPT
     !.model = UnwrapOr(AsStr(Index(doc, "model")), <<"auto">>),
     !.language = UnwrapOr(AsStr(Index(doc, "language")), <<"auto">>),
     !.format = UnwrapOr(AsStr(Index(doc, "format")), <<"text">>),
     !.word_timestamps = UnwrapOr(AsBool(Index(doc, "word_timestamps")), FALSE)]

\* the optional fields read by youtube_download
YoutubeOptions(doc) ==
  [NoOptions EXCEPT
     !.mode = ToLower(UnwrapOr(AsStr(Index(doc, "mode")), <<"audio">>)),
     !.subtitles = UnwrapOr(AsBool(Index(doc, "subtitles")), FALSE),
     !.thumbnails = UnwrapOr(AsBool(Index(doc, "thumbnails")), FALSE),
     !.cookies_browser =
        UnwrapOr(AsStr(Index(doc, "cookies_browser")), <<"none">>),
     !.list_formats = UnwrapOr(AsBool(Index(doc, "list_formats")), FALSE),
     !.playlist = UnwrapOr(AsBool(Index(doc, "playlist")), FALSE),
     !.debug = UnwrapOr(AsBool(Index(doc, "debug")), FALSE)]

\* the languages of --sub-langs: args.get("subtitle_langs") and its match
SubtitleLangs(doc) ==
  LET j == doc["subtitle_langs"] IN
  CASE j.t = "absent" -> <<"en">>
    [] j.t = "str" ->
         IF ToLower(Trim(j.v)) = <<"all">> THEN <<"all">> ELSE Trim(j.v)
    [] j.t = "arr" -> Join(j.v)
    [] OTHER -> <<"en">>

\* the arguments of the faster_whisper command line
LocalArgs(input, o) ==
  <<"-m", "faster_whisper">> \o input
  \o <<"--model">>
  \o (IF o.model = <<"auto">> THEN <<"distil-large-v3.5">> ELSE o.model)
  \o <<"--language">> \o o.language
  \o <<"--format">> \o o.format
  \o <<"--output_dir">>
  \o (IF o.word_timestamps THEN <<"--word-timestamps">> ELSE <<>>)

\* the text parts of the multipart form sent to the API
ApiForm(o) ==
  <<"model">> \o o.model
  \o (IF o.language # <<"auto">> THEN <<"language">> \o o.language ELSE <<>>)
  \o (IF o.format = <<"verbose_json">> \/ o.word_timestamps
      THEN <<"response_format", "verbose_json">> ELSE <<>>)

\* the arguments of the main download command
DownloadArgs(doc, o) ==
  LET langs == SubtitleLangs(doc) IN
  <<"-o", "--restrict-filenames", "--no-warnings", "--print", "--print">>
  \o (IF o.subtitles
      THEN <<"--write-subs">>
           \o (IF langs # <<>>
               THEN <<"--sub-langs">> \o langs
                    \o (IF langs # <<"all">> THEN <<"--write-auto-subs">>
                        ELSE <<"--sleep-requests", "1.5">>)
               ELSE <<>>)
      ELSE <<>>)
  \o (IF o.thumbnails THEN <<"--write-thumbnail">> ELSE <<>>)
  \o (IF o.cookies_browser # <<"none">>
      THEN <<"--cookies-from-browser">> \o o.cookies_browser ELSE <<>>)
  \o (IF o.playlist THEN <<"--yes-playlist">> ELSE <<"--no-playlist">>)
  \o (IF o.mode = <<"audio">>
      THEN <<"--extract-audio", "--audio-format", "mp3", "--audio-quality", "0">>
      ELSE <<"--merge-output-format", "mp4", "-f", "bestvideo+bestaudio/best">>)

\* --------------------------------------------------------------- messages
MissingInputMsg == <<"Missing", "input">>
MissingUrlMsg == <<"Missing", "url">>
NeitherMsg ==
  <<"Neither", "faster-whisper", "nor", "OPENAI_API_KEY", "is", "available",
    "Install", "faster-whisper", "or", "set", "OPENAI_API_KEY", "env", "var">>
FetchFailedMsg == <<"Failed", "to", "download", "audio", "from", "URL">>
LocalSpawnMsg == <<"faster-whisper", "execution", "failed">>
KeyNotSetMsg == <<"OPENAI_API_KEY", "not", "set", "for", "OpenAI", "fallback">>
YtDlpNotFoundMsg ==
  <<"yt-dlp", "not", "found", "in", "PATH", "Install", "with", "brew",
    "install", "yt-dlp", "ffmpeg">>
CwdMsg == <<"Failed", "to", "get", "current", "directory">>
ListSpawnMsg == <<"Failed", "to", "run", "yt-dlp", "-F">>
ListFailedMsg == <<"yt-dlp", "-F", "failed">>
InfoSpawnMsg == <<"Failed", "to", "fetch", "metadata">>
DownloadSpawnMsg == <<"yt-dlp", "execution", "failed">>
\* errors propagated by `?` without a context: the library's own text
IoErrorMsg == <<"No", "such", "file", "or", "directory">>
RequestErrorMsg == <<"error", "sending", "request">>
DecodeErrorMsg == <<"error", "decoding", "response", "body">>

\* ---------------------------------------------------------------- results
EmptyOutput ==
  [form |-> "raw", raw |-> <<>>, fields |-> {}, transcript |-> <<>>,
   file_paths |-> <<>>, thumbnail_paths |-> <<>>]
RawOutput(text) == [EmptyOutput EXCEPT !.raw = text]

NoResult ==
  [kind |-> "none", success |-> FALSE, output |-> EmptyOutput,
   error |-> None, msg |-> <<>>]
\* Ok(ToolResult { success, output, error })
ToolResult(success, output, error) ==
  [kind |-> "Ok", success |-> success, output |-> output, error |-> error,
   msg |-> <<>>]
\* Err(anyhow::Error)
Err(msg) ==
  [kind |-> "Err", success |-> FALSE, output |-> EmptyOutput, error |-> None,
   msg |-> msg]

\* ------------------------------------------------------ external processes
CmdProbeLocal == "python3 -m faster_whisper --version"
CmdFetch == "yt-dlp --extract-audio"
CmdProbeCli == "faster-whisper --version"
CmdLocal == "python3 -m faster_whisper <audio>"
CmdApi == "POST /v1/audio/transcriptions"
CmdProbeYtDlp == "yt-dlp --version"
CmdList == "yt-dlp -F"
CmdInfo == "yt-dlp -J --no-download"
CmdDownload == "yt-dlp -o"

Proc(cmd, st, out, err) == [cmd |-> cmd, st |-> st, out |-> out, err |-> err]

\* what starting a program can yield: it cannot be started when it is not
\* installed, otherwise it runs and exits with some status
SpawnOutcomes(installed) == IF installed THEN {"exit0", "exit1"} ELSE {"nostart"}

\* Result::is_ok of Command::output(): the process was started
IsOk(st) == st # "nostart"
\* ExitStatus::success
ExitSuccess(st) == st = "exit0"

Stderrs == { <<>>, <<" ">>, <<"ERROR", " ", "unavailable", "\n">> }

LocalStdouts == { <<>>, <<"hello", " ", "world", "\n">> }

\* ------------------------------------------------------------------ state
VARIABLES
  env,         \* the host: which programs are installed, OPENAI_API_KEY, cwd
  clock,       \* SystemTime::now() in whole seconds
  tmpfs,       \* temp_dir(): second s |-> the call that wrote yt_audio_s.mp3, 0 if no such file
  pc,          \* per call: the awaited step of execute
  tool,        \* per call: the tool invoked
  args,        \* per call: the argument document
  use_local,   \* per call: audio_transcribe's use_local
  temp_audio,  \* per call: the second in the name of temp_audio, -1 if none
  mkdir,       \* per call: create_dir_all(output_dir) was run
  pending,     \* per call: the value of `result` before cleanup
  result,      \* per call: what execute returned
  procs,       \* per call: the external operations started, in order, with their outcomes
  opts,        \* per call: the optional fields as execute read them
  argv         \* per call: the arguments given to the backend command

vars ==
  <<env, clock, tmpfs, pc, tool, args, use_local, temp_audio, mkdir, pending,
    result, procs, opts, argv>>

Envs ==
  [python3 : BOOLEAN, fw : BOOLEAN, ytdlp : BOOLEAN, apikey : BOOLEAN,
   cwd : BOOLEAN]

Tools == {"audio_transcribe", "youtube_download"}

Init ==
  /\ env \in Envs
  /\ clock = 0
  /\ tmpfs = [s \in Secs |-> 0]
  /\ pc = [c \in Calls |-> "idle"]
  /\ tool = [c \in Calls |-> "audio_transcribe"]
  /\ args = [c \in Calls |-> Doc(JAbsent, JAbsent, JAbsent, JAbsent)]
  /\ use_local = [c \in Calls |-> FALSE]
  /\ temp_audio = [c \in Calls |-> -1]
  /\ mkdir = [c \in Calls |-> FALSE]
  /\ pending = [c \in Calls |-> NoResult]
  /\ result = [c \in Calls |-> NoResult]
  /\ procs = [c \in Calls |-> <<>>]
  /\ opts = [c \in Calls |-> NoOptions]
  /\ argv = [c \in Calls |-> <<>>]

\* the value of a required string field that is known to be present
Input(c) == UnwrapOr(AsStr(Index(args[c], "input")), <<>>)
IsUrl(c) == StartsWith(Input(c), <<"http">>)

Goto(c, label) == pc' = [pc EXCEPT ![c] = label]
Return(c, r) ==
  /\ result' = [result EXCEPT ![c] = r]
  /\ pc' = [pc EXCEPT ![c] = "done"]
Started(c, p) == procs' = [procs EXCEPT ![c] = Append(@, p)]

\* the host invokes execute(args) on one of the tools; invocations are
\* issued one at a time
Invoke(c) ==
  /\ pc[c] = "idle"
  /\ \A d \in Calls : pc[d] = "idle"
  /\ \E t \in Tools : \E a \in ArgDocs(t) :
       /\ tool' = [tool EXCEPT ![c] = t]
       /\ args' = [args EXCEPT ![c] = a]
       /\ Goto(c, IF t = "audio_transcribe" THEN "at_start" ELSE "yt_probe")
  /\ UNCHANGED <<env, clock, tmpfs, use_local, temp_audio, mkdir, pending,
                 result, procs, opts, argv>>

\* the host takes the returned value; the call slot is free again
Collect(c) ==
  /\ pc[c] = "done"
  /\ pc' = [pc EXCEPT ![c] = "idle"]
  /\ use_local' = [use_local EXCEPT ![c] = FALSE]
  /\ temp_audio' = [temp_audio EXCEPT ![c] = -1]
  /\ mkdir' = [mkdir EXCEPT ![c] = FALSE]
  /\ pending' = [pending EXCEPT ![c] = NoResult]
  /\ result' = [result EXCEPT ![c] = NoResult]
  /\ procs' = [procs EXCEPT ![c] = <<>>]
  /\ tool' = [tool EXCEPT ![c] = "audio_transcribe"]
  /\ args' = [args EXCEPT ![c] = Doc(JAbsent, JAbsent, JAbsent, JAbsent)]
  /\ opts' = [opts EXCEPT ![c] = NoOptions]
  /\ argv' = [argv EXCEPT ![c] = <<>>]
  /\ UNCHANGED <<env, clock, tmpfs>>

Tick ==
  /\ clock < MaxClock
  /\ clock' = clock + 1
  /\ UNCHANGED <<env, tmpfs, pc, tool, args, use_local, temp_audio, mkdir,
                 pending, result, procs, opts, argv>>

\* ------------------------------------------------- audio_transcribe::execute
\* args["input"].as_str().context("Missing 'input'")?
ATStart(c) ==
  /\ pc[c] = "at_start"
  /\ IF AsStr(Index(args[c], "input")) = None
     THEN Return(c, Err(MissingInputMsg))
     ELSE Goto(c, "at_probe") /\ UNCHANGED result
  /\ UNCHANGED <<env, clock, tmpfs, tool, args, use_local, temp_audio, mkdir,
                 pending, procs, opts, argv>>

\* the early check with the negation of use_local dropped
NoBackendNegationDropped(local, key) == local /\ ~key

\* !use_local && std::env::var("OPENAI_API_KEY").is_err()
NoBackend(local, key) == ~local /\ ~key

\* the early check, the optional fields, the output directory and the choice
\* between a URL and a local path
ATProbe(c) ==
  /\ pc[c] = "at_probe"
  /\ \E st \in SpawnOutcomes(env.python3) :
       LET local == IsOk(st) IN
       /\ Started(c, Proc(CmdProbeLocal, st, <<>>, <<>>))
       /\ use_local' = [use_local EXCEPT ![c] = local]
       /\ opts' = IF NoBackend(local, env.apikey) THEN opts
                  ELSE [opts EXCEPT ![c] = AudioOptions(args[c])]
       /\ IF NoBackend(local, env.apikey)
          THEN /\ Return(c, ToolResult(FALSE, RawOutput(<<>>), Some(NeitherMsg)))
               /\ UNCHANGED <<mkdir, temp_audio>>
          ELSE IF AsStr(Index(args[c], "output_dir")) = None /\ ~env.cwd
          THEN /\ Return(c, Err(IoErrorMsg))
               /\ UNCHANGED <<mkdir, temp_audio>>
          ELSE /\ mkdir' = [mkdir EXCEPT ![c] = TRUE]
               /\ UNCHANGED result
               /\ IF IsUrl(c)
                  THEN /\ temp_audio' = [temp_audio EXCEPT ![c] = clock]
                       /\ Goto(c, "at_fetch")
                  ELSE /\ UNCHANGED temp_audio
                       /\ Goto(c, "at_probe2")
  /\ UNCHANGED <<env, clock, tmpfs, tool, args, pending, argv>>

\* yt-dlp --extract-audio -o temp_audio <input>; a run that fails may leave
\* a partial file behind
ATFetch(c) ==
  /\ pc[c] = "at_fetch"
  /\ \E st \in SpawnOutcomes(env.ytdlp) : \E wrote \in BOOLEAN :
       /\ ExitSuccess(st) => wrote
       /\ ~IsOk(st) => ~wrote
       /\ Started(c, Proc(CmdFetch, st, <<>>, <<>>))
       /\ tmpfs' = IF wrote THEN [tmpfs EXCEPT ![temp_audio[c]] = c] ELSE tmpfs
       /\ IF ~IsOk(st)
          THEN Return(c, Err(IoErrorMsg))
          ELSE IF ~ExitSuccess(st)
          THEN Return(c, ToolResult(FALSE, RawOutput(<<>>), Some(FetchFailedMsg)))
          ELSE Goto(c, "at_probe2") /\ UNCHANGED result
  /\ UNCHANGED <<env, clock, tool, args, use_local, temp_audio, mkdir, pending,
                 opts, argv>>

\* the backend choice with the temporary file removed before the backend runs
ATProbe2CleanupFirst(c) ==
  /\ pc[c] = "at_probe2"
  /\ \E st \in SpawnOutcomes(env.fw) :
       /\ Started(c, Proc(CmdProbeCli, st, <<>>, <<>>))
       /\ Goto(c, IF IsOk(st) THEN "at_local" ELSE "at_openai")
  /\ tmpfs' = IF IsUrl(c) THEN [tmpfs EXCEPT ![temp_audio[c]] = 0] ELSE tmpfs
  /\ UNCHANGED <<env, clock, tool, args, use_local, temp_audio, mkdir,
                 pending, result, opts, argv>>

\* Command::new("faster-whisper").arg("--version").output().await.is_ok()
ATProbe2(c) ==
  /\ pc[c] = "at_probe2"
  /\ \E st \in SpawnOutcomes(env.fw) :
       /\ Started(c, Proc(CmdProbeCli, st, <<>>, <<>>))
       /\ Goto(c, IF IsOk(st) THEN "at_local" ELSE "at_openai")
  /\ UNCHANGED <<env, clock, tmpfs, tool, args, use_local, temp_audio, mkdir,
                 pending, result, opts, argv>>

\* json!({"transcript", "language", "model", "files"}).to_string()
LocalOutput(transcript) ==
  [form |-> "json", raw |-> <<>>,
   fields |-> {"transcript", "language", "model", "files"},
   transcript |-> transcript, file_paths |-> <<>>, thumbnail_paths |-> <<>>]

\* the ToolResult built by transcribe_local from the finished process
LocalResult(st, out, err) ==
  ToolResult(ExitSuccess(st),
             LocalOutput(IF ExitSuccess(st) THEN Trim(out) ELSE err),
             IF ExitSuccess(st) THEN None ELSE Some(Trim(err)))

ATLocal(c) ==
  /\ pc[c] = "at_local"
  /\ \E st \in SpawnOutcomes(env.python3) :
     \E out \in LocalStdouts : \E err \in Stderrs :
       /\ ~IsOk(st) => out = <<>> /\ err = <<>>
       /\ Started(c, Proc(CmdLocal, st, out, err))
       /\ argv' = [argv EXCEPT ![c] = LocalArgs(Input(c), opts[c])]
       /\ IF ~IsOk(st)
          THEN Return(c, Err(LocalSpawnMsg)) /\ UNCHANGED pending
          ELSE /\ pending' = [pending EXCEPT ![c] = LocalResult(st, out, err)]
               /\ Goto(c, "at_cleanup")
               /\ UNCHANGED result
  /\ UNCHANGED <<env, clock, tmpfs, tool, args, use_local, temp_audio, mkdir,
                 opts>>

\* what the remote API can answer: a transcription, an API error with a JSON
\* body, or a gateway error whose body is not JSON
ApiResponses ==
  { [st |-> "http200", json |-> TRUE, fields |-> {"text"}],
    [st |-> "http401", json |-> TRUE, fields |-> {"error"}],
    [st |-> "http502", json |-> FALSE, fields |-> {}] }

\* json.to_string() of the response body
ApiOutput(resp) ==
  [form |-> "json", raw |-> <<>>, fields |-> resp.fields, transcript |-> <<>>,
   file_paths |-> <<>>, thumbnail_paths |-> <<>>]

\* the ToolResult built by transcribe_openai from a decoded response
ApiResult(resp) == ToolResult(TRUE, ApiOutput(resp), None)

\* the audio file can be opened: the fetched file for a URL, any outcome for
\* a path given by the caller
Readable(c) ==
  IF IsUrl(c) THEN {tmpfs[temp_audio[c]] # 0} ELSE BOOLEAN

ATOpenAI(c) ==
  /\ pc[c] = "at_openai"
  /\ IF ~env.apikey
     THEN Return(c, Err(KeyNotSetMsg)) /\ UNCHANGED <<pending, procs, argv>>
     ELSE \E readable \in Readable(c) :
       IF ~readable
       THEN Return(c, Err(IoErrorMsg)) /\ UNCHANGED <<pending, procs, argv>>
       ELSE \/ /\ Started(c, Proc(CmdApi, "neterr", <<>>, <<>>))
               /\ argv' = [argv EXCEPT ![c] = ApiForm(opts[c])]
               /\ Return(c, Err(RequestErrorMsg))
               /\ UNCHANGED pending
            \/ \E resp \in ApiResponses :
                 /\ Started(c, Proc(CmdApi, resp.st, <<>>, <<>>))
                 /\ argv' = [argv EXCEPT ![c] = ApiForm(opts[c])]
                 /\ IF ~resp.json
                    THEN Return(c, Err(DecodeErrorMsg)) /\ UNCHANGED pending
                    ELSE /\ pending' = [pending EXCEPT ![c] = ApiResult(resp)]
                         /\ Goto(c, "at_cleanup")
                         /\ UNCHANGED result
  /\ UNCHANGED <<env, clock, tmpfs, tool, args, use_local, temp_audio, mkdir,
                 opts>>

\* if input.starts_with("http") { remove_file(&audio_path) }  Ok(result)
ATCleanup(c) ==
  /\ pc[c] = "at_cleanup"
  /\ tmpfs' = IF IsUrl(c) THEN [tmpfs EXCEPT ![temp_audio[c]] = 0] ELSE tmpfs
  /\ Return(c, pending[c])
  /\ UNCHANGED <<env, clock, tool, args, use_local, temp_audio, mkdir, pending,
                 procs, opts, argv>>

\* ------------------------------------------------- youtube_download::execute
\* lines the downloader can print: the two --print markers and progress text
DlLines ==
  { <<"filepath:", "/downloads/a.mp3">>, <<"filepath:", " ">>,
    <<"thumbnail:", "https://i.ytimg.com/t.jpg">>, <<"[download]", " ", "100%">> }

RECURSIVE StdoutsUpTo(_)
StdoutsUpTo(n) ==
  IF n = 0 THEN { <<>> }
  ELSE StdoutsUpTo(n - 1) \cup
       { l \o <<"\n">> \o s : l \in DlLines, s \in StdoutsUpTo(n - 1) }

DlStdouts == StdoutsUpTo(MaxStdoutLines)
ListStdouts == { <<>>, <<"ID", " ", "EXT", " ", "RESOLUTION", "\n">> }

\* the loop over stdout.lines() that fills file_paths
RECURSIVE FilePaths(_)
FilePaths(lines) ==
  IF lines = <<>> THEN <<>>
  ELSE LET p == StripPrefix(Head(lines), <<"filepath:">>)
       IN (IF IsSome(p) THEN <<Trim(p[1])>> ELSE <<>>) \o FilePaths(Tail(lines))

\* the same loop, filling thumbnail_paths
RECURSIVE ThumbnailPaths(_)
ThumbnailPaths(lines) ==
  IF lines = <<>> THEN <<>>
  ELSE LET f == StripPrefix(Head(lines), <<"filepath:">>)
           t == StripPrefix(Head(lines), <<"thumbnail:">>)
       IN (IF ~IsSome(f) /\ IsSome(t) /\ Trim(t[1]) # <<>>
           THEN <<Trim(t[1])>> ELSE <<>>) \o ThumbnailPaths(Tail(lines))

\* json!({"file_paths", "thumbnail_paths", "metadata", "output_dir", "message"})
DownloadOutput(out) ==
  [form |-> "json", raw |-> <<>>,
   fields |-> {"file_paths", "thumbnail_paths", "metadata", "output_dir",
               "message"},
   transcript |-> <<>>, file_paths |-> FilePaths(Lines(out)),
   thumbnail_paths |-> ThumbnailPaths(Lines(out))]

\* success taken from the exit status alone
DownloadSuccessExitOnly(st, file_paths) == ExitSuccess(st)

\* let success = output.status.success() && !file_paths.is_empty()
DownloadSuccess(st, file_paths) == ExitSuccess(st) /\ file_paths # <<>>

\* the download result with the error decided by the exit status, as the
\* listing branch does
DownloadResultErrorByExit(st, out, err) ==
  ToolResult(DownloadSuccess(st, FilePaths(Lines(out))), DownloadOutput(out),
             IF ExitSuccess(st) THEN None ELSE Some(Trim(err)))

\* the ToolResult built from the finished download process
DownloadResult(st, out, err) ==
  LET ok == DownloadSuccess(st, FilePaths(Lines(out)))
  IN ToolResult(ok, DownloadOutput(out), IF ok THEN None ELSE Some(Trim(err)))

\* the ToolResult built from the finished yt-dlp -F process
ListResult(st, out, err) ==
  ToolResult(ExitSuccess(st),
             RawOutput(IF ExitSuccess(st) THEN out ELSE err),
             IF ExitSuccess(st) THEN None ELSE Some(ListFailedMsg))

\* list_formats never read: every call downloads
ListFormatsIgnored(c) == FALSE

\* args["list_formats"].as_bool().unwrap_or(false)
ListFormats(c) == UnwrapOr(AsBool(Index(args[c], "list_formats")), FALSE)

\* the early yt-dlp check, the fields, the output directory
YTProbe(c) ==
  /\ pc[c] = "yt_probe"
  /\ \E st \in SpawnOutcomes(env.ytdlp) :
       /\ Started(c, Proc(CmdProbeYtDlp, st, <<>>, <<>>))
       /\ opts' = IF IsOk(st) /\ AsStr(Index(args[c], "url")) # None
                  THEN [opts EXCEPT ![c] = YoutubeOptions(args[c])]
                  ELSE opts
       /\ IF ~IsOk(st)
          THEN /\ Return(c, ToolResult(FALSE, RawOutput(<<>>), Some(YtDlpNotFoundMsg)))
               /\ UNCHANGED mkdir
          ELSE IF AsStr(Index(args[c], "url")) = None
          THEN Return(c, Err(MissingUrlMsg)) /\ UNCHANGED mkdir
          ELSE IF ~env.cwd
          THEN Return(c, Err(CwdMsg)) /\ UNCHANGED mkdir
          ELSE /\ mkdir' = [mkdir EXCEPT ![c] = TRUE]
               /\ UNCHANGED result
               /\ Goto(c, IF ListFormats(c) THEN "yt_list" ELSE "yt_info")
  /\ UNCHANGED <<env, clock, tmpfs, tool, args, use_local, temp_audio, pending,
                 argv>>

YTList(c) ==
  /\ pc[c] = "yt_list"
  /\ \E st \in SpawnOutcomes(env.ytdlp) :
     \E out \in ListStdouts : \E err \in Stderrs :
       /\ ExitSuccess(st) => err = <<>>
       /\ ~ExitSuccess(st) => out = <<>>
       /\ ~IsOk(st) => err = <<>>
       /\ Started(c, Proc(CmdList, st, out, err))
       /\ Return(c, IF ~IsOk(st) THEN Err(ListSpawnMsg)
                    ELSE ListResult(st, out, err))
  /\ UNCHANGED <<env, clock, tmpfs, tool, args, use_local, temp_audio, mkdir,
                 pending, opts, argv>>

\* yt-dlp -J --no-download; its output only feeds the "metadata" field
YTInfo(c) ==
  /\ pc[c] = "yt_info"
  /\ \E st \in SpawnOutcomes(env.ytdlp) :
       /\ Started(c, Proc(CmdInfo, st, <<>>, <<>>))
       /\ IF ~IsOk(st)
          THEN Return(c, Err(InfoSpawnMsg))
          ELSE Goto(c, "yt_download") /\ UNCHANGED result
  /\ UNCHANGED <<env, clock, tmpfs, tool, args, use_local, temp_audio, mkdir,
                 pending, opts, argv>>

YTDownload(c) ==
  /\ pc[c] = "yt_download"
  /\ \E st \in SpawnOutcomes(env.ytdlp) :
     \E out \in DlStdouts : \E err \in Stderrs :
       /\ ~IsOk(st) => out = <<>> /\ err = <<>>
       /\ Started(c, Proc(CmdDownload, st, out, err))
       /\ argv' = [argv EXCEPT ![c] = DownloadArgs(args[c], opts[c])]
       /\ Return(c, IF ~IsOk(st) THEN Err(DownloadSpawnMsg)
                    ELSE DownloadResult(st, out, err))
  /\ UNCHANGED <<env, clock, tmpfs, tool, args, use_local, temp_audio, mkdir,
                 pending, opts>>

\* ---------------------------------------------------------- specification
Next ==
  \/ Tick
  \/ \E c \in Calls :
       \/ Invoke(c)
       \/ Collect(c)
       \/ ATStart(c)
       \/ ATProbe(c)
       \/ ATFetch(c)
       \/ ATProbe2(c)
       \/ ATLocal(c)
       \/ ATOpenAI(c)
       \/ ATCleanup(c)
       \/ YTProbe(c)
       \/ YTList(c)
       \/ YTInfo(c)
       \/ YTDownload(c)

Spec == Init /\ [][Next]_vars

\* the host issues audio_transcribe calls with a URL input concurrently
ConcurrentDocs ==
  { Doc(JStr(UrlInput), JStr(<<"/tmp/zeroclaw_transcribe_test">>), JAbsent,
        JAbsent) }

InvokeConcurrent(c) ==
  /\ pc[c] = "idle"
  /\ \E a \in ConcurrentDocs :
       /\ tool' = [tool EXCEPT ![c] = "audio_transcribe"]
       /\ args' = [args EXCEPT ![c] = a]
       /\ Goto(c, "at_start")
  /\ UNCHANGED <<env, clock, tmpfs, use_local, temp_audio, mkdir, pending,
                 result, procs, opts, argv>>

NextConcurrent ==
  \/ Tick
  \/ \E c \in Calls :
       \/ InvokeConcurrent(c)
       \/ Collect(c)
       \/ ATStart(c)
       \/ ATProbe(c)
       \/ ATFetch(c)
       \/ ATProbe2(c)
       \/ ATLocal(c)
       \/ ATOpenAI(c)
       \/ ATCleanup(c)

SpecConcurrent == Init /\ [][NextConcurrent]_vars

\* one call that gives, omits or mistypes the optional fields, on a host
\* with python3, yt-dlp, a working directory and OPENAI_API_KEY
AudioOptional == {"model", "language", "format", "word_timestamps"}
YoutubeOptional ==
  {"mode", "subtitles", "thumbnails", "playlist", "debug", "cookies_browser",
   "list_formats"}

Given(k) ==
  CASE k = "model" -> JStr(<<"large-v3">>)
    [] k = "language" -> JStr(<<"en">>)
    [] k = "format" -> JStr(<<"json">>)
    [] k = "mode" -> JStr(<<"VIDEO">>)
    [] k = "cookies_browser" -> JStr(<<"firefox">>)
    [] OTHER -> JBool(TRUE)

SubtitleLangsValues ==
  { JAbsent, JNull, JStr(<<" ", "ALL">>), JStr(<<"en,es", " ">>),
    JArr(<<"en", "es">>), JArr(<<>>) }

OptionDocs(t) ==
  IF t = "audio_transcribe"
  THEN { [k \in ArgKeys |->
            IF k \in AudioOptional
            THEN (CASE f[k] = "given" -> Given(k)
                    [] f[k] = "mistyped" -> JNum
                    [] OTHER -> JAbsent)
            ELSE Doc(JStr(LocalInput), JStr(<<"/tmp/zeroclaw_transcribe_test">>),
                     JAbsent, JAbsent)[k]] :
         f \in [AudioOptional -> {"absent", "given", "mistyped"}] }
  ELSE { [k \in ArgKeys |->
            IF k \in given THEN Given(k)
            ELSE IF k = "subtitle_langs" THEN l
            ELSE Doc(JAbsent, JAbsent, JStr(UrlInput), JAbsent)[k]] :
         given \in { g \in SUBSET YoutubeOptional :
                       Cardinality(g) <= 1
                         \/ Cardinality(g) >= Cardinality(YoutubeOptional) - 1 },
         l \in SubtitleLangsValues }

InitOptions ==
  /\ Init
  /\ env.python3 /\ env.ytdlp /\ env.cwd /\ env.apikey

InvokeOptions(c) ==
  /\ pc[c] = "idle"
  /\ \A d \in Calls : pc[d] = "idle"
  /\ \E t \in Tools : \E a \in OptionDocs(t) :
       /\ tool' = [tool EXCEPT ![c] = t]
       /\ args' = [args EXCEPT ![c] = a]
       /\ Goto(c, IF t = "audio_transcribe" THEN "at_start" ELSE "yt_probe")
  /\ UNCHANGED <<env, clock, tmpfs, use_local, temp_audio, mkdir, pending,
                 result, procs, opts, argv>>

NextOptions ==
  \E c \in Calls :
    \/ InvokeOptions(c)
    \/ ATStart(c)
    \/ ATProbe(c)
    \/ ATProbe2(c)
    \/ ATLocal(c)
    \/ ATOpenAI(c)
    \/ ATCleanup(c)
    \/ YTProbe(c)
    \/ YTList(c)
    \/ YTInfo(c)
    \/ YTDownload(c)

SpecOptions == InitOptions /\ [][NextOptions]_vars

TypeOK ==
  /\ env \in Envs
  /\ clock \in Secs
  /\ tmpfs \in [Secs -> 0 .. NumCalls]
  /\ \A c \in Calls :
       /\ tool[c] \in Tools
       /\ temp_audio[c] \in Secs \cup {-1}
       /\ result[c].kind \in {"none", "Ok", "Err"}
       /\ pc[c] = "done" <=> result[c].kind # "none"

\* ------------------------------------------------------------- properties
Done(c) == pc[c] = "done"
Ran(c, cmd) == \E i \in DOMAIN procs[c] : procs[c][i].cmd = cmd
RanWith(c, cmd, sts) ==
  \E i \in DOMAIN procs[c] : procs[c][i].cmd = cmd /\ procs[c][i].st \in sts
Count(c, cmd) == Cardinality({i \in DOMAIN procs[c] : procs[c][i].cmd = cmd})
Last(q) == q[Len(q)]

\* "required": ["input"] and "required": ["url"]
RequiredField(c) == IF tool[c] = "audio_transcribe" THEN "input" ELSE "url"
RequiredPresent(c) == IsSome(AsStr(Index(args[c], RequiredField(c))))

IsNegative(r) == r.kind = "Ok" /\ ~r.success /\ IsSome(r.error)

\* C1: in both tools a call whose required field is absent or not a string
\* returns Err with a message naming the field, whatever is installed, and
\* starts no external process before that.
C1_MissingFieldIsErr ==
  \A c \in Calls :
    (pc[c] \notin {"idle", "at_start", "yt_probe"} /\ ~RequiredPresent(c)) =>
      /\ Done(c)
      /\ result[c].kind = "Err"
      /\ Mentions(result[c].msg, RequiredField(c))
      /\ procs[c] = <<>>

\* C2: with the required field present, a failed backend operation (a
\* program that cannot be started, a non-zero exit, a network, HTTP or
\* decoding error) never ends the call with Err: the call returns a negative
\* ToolResult.
MainCmds == {CmdFetch, CmdLocal, CmdApi, CmdList, CmdInfo, CmdDownload}
FailureStatuses == {"nostart", "exit1", "neterr", "http401", "http502"}

C2_BackendFailureIsNegative ==
  \A c \in Calls :
    ( /\ Done(c)
      /\ RequiredPresent(c)
      /\ procs[c] # <<>>
      /\ Last(procs[c]).cmd \in MainCmds
      /\ Last(procs[c]).st \in FailureStatuses ) =>
      IsNegative(result[c])

\* C3: when audio_transcribe with a URL input has reached the fetch, the
\* temporary audio file is gone when execute has returned, on every exit
\* path.
C3_TempFileRemoved ==
  \A c \in Calls :
    (Done(c) /\ tool[c] = "audio_transcribe" /\ Ran(c, CmdFetch)) =>
      tmpfs[temp_audio[c]] = 0

\* C4: audio_transcribe with input present, the local probe not startable
\* and no OPENAI_API_KEY returns the negative result naming both
\* faster-whisper and OPENAI_API_KEY, with empty output, and has done
\* nothing else: no output directory, no fetch, no backend.
C4_NeitherBackendEarly ==
  \A c \in Calls :
    ( /\ tool[c] = "audio_transcribe"
      /\ RequiredPresent(c)
      /\ RanWith(c, CmdProbeLocal, {"nostart"})
      /\ ~env.apikey ) =>
      /\ Done(c)
      /\ IsNegative(result[c])
      /\ result[c].output = RawOutput(<<>>)
      /\ Mentions(result[c].error[1], "faster-whisper")
      /\ Mentions(result[c].error[1], "OPENAI_API_KEY")
      /\ ~mkdir[c]
      /\ Len(procs[c]) = 1

C4_Witness ==
  \E c \in Calls :
    /\ Done(c)
    /\ tool[c] = "audio_transcribe"
    /\ Input(c) = UrlInput
    /\ RanWith(c, CmdProbeLocal, {"nostart"})
    /\ ~env.apikey
    /\ result[c].error = Some(NeitherMsg)

\* C5: an availability probe that starts and exits non-zero is treated as
\* "backend unavailable", exactly like a probe that cannot be started.
C5_NonZeroProbeUnavailable ==
  \A c \in Calls :
    /\ RanWith(c, CmdProbeLocal, {"exit1"}) => ~use_local[c]
    /\ RanWith(c, CmdProbeCli, {"exit1"}) => ~Ran(c, CmdLocal)
    /\ RanWith(c, CmdProbeYtDlp, {"exit1"}) =>
         /\ Done(c)
         /\ result[c] = ToolResult(FALSE, RawOutput(<<>>), Some(YtDlpNotFoundMsg))

\* C6: in download mode, success is true exactly when the download process
\* exited with success and printed at least one "filepath:" line; so a
\* successful result has a non-empty file_paths and an empty file_paths
\* means success = false.
PrintedFilePath(p) ==
  \E i \in DOMAIN Lines(p.out) : StartsWith(Lines(p.out)[i], <<"filepath:">>)

C6_SuccessIffExitAndFile ==
  \A c \in Calls :
    ( /\ Done(c)
      /\ tool[c] = "youtube_download"
      /\ ~ListFormats(c)
      /\ result[c].kind = "Ok" ) =>
      /\ result[c].success <=>
           \E i \in DOMAIN procs[c] :
             /\ procs[c][i].cmd = CmdDownload
             /\ procs[c][i].st = "exit0"
             /\ PrintedFilePath(procs[c][i])
      /\ result[c].success => result[c].output.file_paths # <<>>
      /\ result[c].output.file_paths = <<>> => ~result[c].success

C6_Witness ==
  \E c \in Calls :
    /\ Done(c)
    /\ tool[c] = "youtube_download"
    /\ RanWith(c, CmdDownload, {"exit0"})
    /\ result[c].output.file_paths = <<>>
    /\ ~result[c].success

\* C7: when the transcription backend that was chosen runs and reports a
\* failure (local exit non-zero, remote non-success HTTP response), the
\* result is negative.
C7_BackendFailureReported ==
  \A c \in Calls :
    ( /\ Done(c)
      /\ \/ RanWith(c, CmdLocal, {"exit1"})
         \/ RanWith(c, CmdApi, {"http401", "http502"}) ) =>
      IsNegative(result[c])

\* C8: in every ToolResult returned by either tool, error is present
\* exactly when success is false.
C8_ErrorIffNotSuccess ==
  \A c \in Calls :
    result[c].kind = "Ok" => (IsSome(result[c].error) <=> ~result[c].success)

C8_Witness ==
  \E c \in Calls :
    /\ Done(c)
    /\ RanWith(c, CmdDownload, {"exit0"})
    /\ result[c].kind = "Ok"
    /\ ~result[c].success
    /\ IsSome(result[c].error)

\* C9: every negative result carries a non-empty error message.
C9_NegativeHasMessage ==
  \A c \in Calls :
    (result[c].kind = "Ok" /\ ~result[c].success) =>
      /\ IsSome(result[c].error)
      /\ result[c].error[1] # <<>>

\* C10: when the fetch of audio_transcribe fails (not startable or non-zero
\* exit) the result is negative with a message of its own, the downloader
\* ran once and no transcription backend was invoked.
BackendMessages ==
  {NeitherMsg, LocalSpawnMsg, KeyNotSetMsg} \cup {Trim(e) : e \in Stderrs}

C10_FetchFailureDistinct ==
  \A c \in Calls :
    ( /\ Done(c)
      /\ tool[c] = "audio_transcribe"
      /\ RanWith(c, CmdFetch, {"nostart", "exit1"}) ) =>
      /\ IsNegative(result[c])
      /\ result[c].error[1] \notin BackendMessages
      /\ Count(c, CmdFetch) = 1
      /\ ~Ran(c, CmdLocal)
      /\ ~Ran(c, CmdApi)

\* C11: in one audio_transcribe call with a URL input the external steps
\* happen in the order availability probe, fetch, backend execution (which
\* opens with the choice of the backend), cleanup, each at most once: no
\* fetch before the availability check has passed, no backend before the
\* fetch has exited with success, and the temporary file is still there
\* until the backend has finished.
StepAt(i) ==
  CASE i = 1 -> {CmdProbeLocal}
    [] i = 2 -> {CmdFetch}
    [] i = 3 -> {CmdProbeCli}
    [] OTHER -> {CmdLocal, CmdApi}

C12_OwnTempFile ==
  \A c \in Calls :
    ( /\ tool[c] = "audio_transcribe"
      /\ RanWith(c, CmdFetch, {"exit0"})
      /\ pc[c] \in {"at_probe2", "at_local", "at_openai"} ) =>
      tmpfs[temp_audio[c]] = c

\* C13: whenever audio_transcribe returns success = true, with the local or
\* the remote backend, its output is a JSON document with a "transcript"
\* field holding a non-empty string.
C13_SuccessHasTranscript ==
  \A c \in Calls :
    ( /\ Done(c)
      /\ tool[c] = "audio_transcribe"
      /\ result[c].kind = "Ok"
      /\ result[c].success ) =>
      /\ result[c].output.form = "json"
      /\ "transcript" \in result[c].output.fields
      /\ result[c].output.transcript # <<>>

\* C15: youtube_download with url present, the downloader available and
\* list_formats = true runs only the listing command: the metadata and the
\* download command are never started, success is the exit success of the
\* listing and on success output is the listing's standard output.
C15_ListFormatsOnly ==
  \A c \in Calls :
    ( /\ tool[c] = "youtube_download"
      /\ RequiredPresent(c)
      /\ args[c]["list_formats"] = JBool(TRUE)
      /\ RanWith(c, CmdProbeYtDlp, {"exit0", "exit1"}) ) =>
      /\ ~Ran(c, CmdInfo)
      /\ ~Ran(c, CmdDownload)
      /\ Count(c, CmdList) <= 1
      /\ (Done(c) /\ result[c].kind = "Ok") =>
           /\ Len(procs[c]) = 2
           /\ procs[c][2].cmd = CmdList
           /\ result[c].success <=> procs[c][2].st = "exit0"
           /\ result[c].success => result[c].output = RawOutput(procs[c][2].out)

C15_Witness ==
  \E c \in Calls :
    /\ Done(c)
    /\ tool[c] = "youtube_download"
    /\ args[c]["list_formats"] = JBool(TRUE)
    /\ RanWith(c, CmdList, {"exit0"})
    /\ result[c].success
    /\ result[c].output.raw # <<>>

\* C16: audio_transcribe attempts a transcription backend only if the
\* availability check at the start of the same call found it usable: the
\* remote path is entered only with OPENAI_API_KEY set, the local
\* subprocess is attempted only when the initial local probe succeeded.
C16_OnlyAvailableBackend ==
  \A c \in Calls :
    tool[c] = "audio_transcribe" =>
      /\ (pc[c] = "at_openai" \/ Ran(c, CmdApi)) => env.apikey
      /\ (pc[c] = "at_local" \/ Ran(c, CmdLocal)) => use_local[c]

\* C14: an optional field with a documented default that is absent from
\* the arguments takes its declared default: audio_transcribe model "auto",
\* language "auto", format "text", word_timestamps false; youtube_download
\* mode "audio", subtitles, thumbnails, playlist, list_formats and debug
\* false, cookies_browser "none" (no cookie flag on the command line) and
\* subtitle language "en" when subtitles = true without subtitle_langs.
Absent(c, k) == args[c][k] = JAbsent
HasArg(c, a) == \E i \in DOMAIN argv[c] : argv[c][i] = a
HasPair(c, a, b) ==
  \E i \in DOMAIN argv[c] :
    i + 1 \in DOMAIN argv[c] /\ argv[c][i] = a /\ argv[c][i + 1] = b

====
